---- MODULE Spec2Model ----
(***************************************************************************)
(* TrackEditorWeb: the Track engine of src/TrackApp/track.py as a state    *)
(* machine.  The pandas table df_track is a sequence of rows; every row    *)
(* carries its index label (pandas aligns assignments on labels, and       *)
(* divide_segment and change_order read the label), the GPX columns and    *)
(* the derived columns.  Every cell but the label and the distance is a    *)
(* float cell: a number, or NaN (NaT in the time column) where pandas      *)
(* leaves it undefined.  dtypes holds the dtype of each GPX column.        *)
(***************************************************************************)
EXTENDS Integers, Sequences, FiniteSets, TLC

VARIABLES df_track, size, last_segment_idx, total_distance, total_uphill,
          total_downhill, extremes, call, prev, ncalls, base, splits, dtypes

vars == <<df_track, size, last_segment_idx, total_distance, total_uphill,
          total_downhill, extremes, call, prev, ncalls, base, splits, dtypes>>

\* the web layer of src/TrackApp/views.py: the stored accounts, the user of
\* the client's session, the last request with its response
VARIABLES accounts, session, response

web == <<accounts, session, response>>

\* the correction loop of insert_timestamp taken pass by pass: its locals, and
\* the wall clock since the loop's start
VARIABLES loop, clock

run == <<loop, clock>>

(* ---------------------------- bounds ---------------------------------- *)
\* most rows the table may hold
MaxRows == 5
\* largest segment id the guards let the table or the counter reach
MaxSegmentId == 3
\* size is kept within -MaxSizeSlack .. MaxRows + MaxSizeSlack
MaxSizeSlack == 1
\* most calls made on one Track
MaxCalls == 5

(* ------------------------ float cells and series ----------------------- *)
\* numpy's NaN: a cell without a number; every comparison with it is false
NaN == <<>>
Num(v) == <<v>>
IsNaN(c) == c = NaN
Val(c) == c[1]
CellLe(a, b) == ~IsNaN(a) /\ ~IsNaN(b) /\ Val(a) <= Val(b)
CellLt(a, b) == ~IsNaN(a) /\ ~IsNaN(b) /\ Val(a) < Val(b)
\* c + n in floating point: NaN stays NaN
Plus(c, n) == IF IsNaN(c) THEN NaN ELSE Num(Val(c) + n)
CellEq(a, b) == ~IsNaN(a) /\ ~IsNaN(b) /\ Val(a) = Val(b)

Abs(x) == IF x < 0 THEN -x ELSE x
\* a sequence given as a function on 1..n, as the tuple of its values
AsSeq(f) == f \o <<>>
\* a slice that keeps the order
NotReversed(s) == s
Reverse(s) == AsSeq([i \in 1..Len(s) |-> s[Len(s) + 1 - i]])
RECURSIVE SumTo(_, _)
\* sum of the cells of s up to position i, NaN cells skipped (skipna)
SumTo(s, i) == IF i = 0 THEN 0
               ELSE SumTo(s, i - 1) + (IF IsNaN(s[i]) THEN 0 ELSE Val(s[i]))
\* Series.diff(): the first cell has no predecessor and is NaN
diff(col) ==
    AsSeq([i \in 1..Len(col) |->
        IF i = 1 \/ IsNaN(col[i]) \/ IsNaN(col[i - 1]) THEN NaN
        ELSE Num(Val(col[i]) - Val(col[i - 1]))])
\* Series.cumsum(): a NaN cell stays NaN and is skipped by the running sum
cumsum(cells) == AsSeq([i \in 1..Len(cells) |-> IF IsNaN(cells[i]) THEN NaN ELSE Num(SumTo(cells, i))])
Column(df, f) == AsSeq([i \in 1..Len(df) |-> df[i][f]])
\* the segment ids the rows of a table hold (a NaN cell is no id)
SegmentIds(df) == {Val(df[i].segment) : i \in {j \in 1..Len(df) : ~IsNaN(df[j].segment)}}
SetMax(S) == CHOOSE m \in S : \A x \in S : x <= m
SetMin(S) == CHOOSE m \in S : \A x \in S : m <= x

(* ------------------------- the GPX adapter ----------------------------- *)
Pt(la, lo, el, t) == [lat |-> la, lon |-> lo, ele |-> el, time |-> t]
\* what gpx.Gpx(file).to_pandas() returns for the files the calls are made
\* with: a climb, a file with a repeated (stationary) point, a single point
GpxFiles == { << Pt(0, 0, 1, 1), Pt(1, 0, 3, 2) >>,
              << Pt(1, 1, 2, 3), Pt(1, 1, 0, 4), Pt(2, 1, 1, 5) >>,
              << Pt(0, 2, 0, 6) >> }
\* a recording whose points carry no elevation
BarePt(la, lo, t) == [lat |-> la, lon |-> lo, time |-> t]
BareFiles == { << BarePt(0, 0, 1), BarePt(1, 0, 2) >> }
to_pandas(file) ==
    AsSeq([i \in 1..Len(file) |->
        [lat |-> Num(file[i].lat), lon |-> Num(file[i].lon),
         ele |-> IF "ele" \in DOMAIN file[i] THEN Num(file[i].ele) ELSE NaN,
         time |-> Num(file[i].time)]])

(* ----------------------- derived columns ------------------------------- *)
\* geopy.distance.geodesic(a, b).km on the grid of the modelled points
geodesic(a, b) == Abs(a[1] - b[1]) + Abs(a[2] - b[2])
\* compute_distance: geodesic raises ValueError on a NaN coordinate
compute_distance(lat, lon, lat_shift, lon_shift) ==
    IF NaN \in {lat, lon, lat_shift, lon_shift} THEN 0
    ELSE Abs(geodesic(<<Val(lat), Val(lon)>>, <<Val(lat_shift), Val(lon_shift)>>))
\* pd.concat([pd.Series(np.nan), col[0:-1]]).reset_index(drop=True)
shift(col) == <<NaN>> \o SubSeq(col, 1, Len(col) - 1)
\* the row of a frame that was given an index it had no cells for
NaNRow(label) ==
    [index |-> label, lat |-> NaN, lon |-> NaN, ele |-> NaN, segment |-> NaN,
     time |-> NaN, distance |-> 0, ele_pos_cum |-> NaN, ele_neg_cum |-> NaN]
\* df[col] = series on a frame without rows: pandas gives the frame the
\* index of the series and fills every column with NaN
_ensure_valid_index(df, series) ==
    IF df = <<>> /\ series # <<>>
    THEN AsSeq([i \in 1..Len(series) |-> NaNRow(i - 1)])
    ELSE df

_insert_positive_elevation(df) ==
    LET d   == diff(Column(df, "ele"))
        pos == AsSeq([i \in 1..Len(d) |-> IF ~IsNaN(d[i]) /\ Val(d[i]) < 0 THEN Num(0) ELSE d[i]])
        cum == cumsum(pos)
    IN  AsSeq([i \in 1..Len(df) |-> [df[i] EXCEPT !.ele_pos_cum = cum[i]]])

_insert_negative_elevation(df) ==
    LET d   == diff(Column(df, "ele"))
        neg == AsSeq([i \in 1..Len(d) |-> IF ~IsNaN(d[i]) /\ Val(d[i]) > 0 THEN Num(0) ELSE d[i]])
        cum == cumsum(neg)
    IN  AsSeq([i \in 1..Len(df) |-> [df[i] EXCEPT !.ele_neg_cum = cum[i]]])

\* df[col] = series, the series labelled 0 .. n-1 by reset_index: a row takes
\* the cell at its own label, NaN when the series has no such label
setitem_shifted(df, series) ==
    AsSeq([i \in 1..Len(df) |->
        IF df[i].index + 1 \in 1..Len(series) THEN series[df[i].index + 1] ELSE NaN])

_insert_distance(df) ==
    LET frame == _ensure_valid_index(df, shift(Column(df, "lat")))
        lat_shift == setitem_shifted(frame, shift(Column(df, "lat")))
        lon_shift == setitem_shifted(frame, shift(Column(df, "lon")))
        p2p == AsSeq([i \in 1..Len(frame) |->
                  Num(compute_distance(frame[i].lat, frame[i].lon,
                                       lat_shift[i], lon_shift[i]))])
        cum == cumsum(p2p)
    IN  AsSeq([i \in 1..Len(frame) |-> [frame[i] EXCEPT !.distance = Val(cum[i])]])

\* Series.min() and Series.max(): NaN cells are skipped; NaN when all are NaN
nanmin(col) == LET S == {Val(c) : c \in {col[i] : i \in 1..Len(col)} \ {NaN}}
               IN  IF S = {} THEN NaN ELSE Num(SetMin(S))
nanmax(col) == LET S == {Val(c) : c \in {col[i] : i \in 1..Len(col)} \ {NaN}}
               IN  IF S = {} THEN NaN ELSE Num(SetMax(S))
_update_extremes(df) ==
    <<nanmin(Column(df, "lat")), nanmax(Column(df, "lat")),
      nanmin(Column(df, "lon")), nanmax(Column(df, "lon"))>>

\* the table _update_summary leaves: on a table without rows the derived
\* elevation columns are computed on no rows, and _insert_distance leaves
\* one row of NaN
_update_summary(df) ==
    _insert_distance(_insert_negative_elevation(_insert_positive_elevation(df)))

\* astype float32 / int32 / datetime64[ns]: exact on the modelled values
_force_columns_type(df) == df
\* astype('int32') raises on a segment column that holds NaN
cast_raises(df) == \E i \in 1..Len(df) : IsNaN(df[i].segment)

\* the dtypes _force_columns_type casts the GPX columns to
forced_types ==
    [lat |-> "float32", lon |-> "float32", ele |-> "float32",
     segment |-> "int32", time |-> "datetime64[ns]"]
\* the dtypes _force_columns_type leaves on a table: the casts run in the
\* order lat, lon, ele, segment, time, and the cast of a segment column that
\* holds NaN (a float64 column) raises
force_types(types, df) ==
    IF cast_raises(df)
    THEN [types EXCEPT !.lat = "float32", !.lon = "float32", !.ele = "float32",
                       !.segment = "float64"]
    ELSE forced_types
\* the dtype of the column DataFrame.apply(..., axis=1) builds from the ids
\* the rows return: Python ints, floats when a row has no id
applied_type(df) == IF cast_raises(df) THEN "float64" ELSE "int64"

reset_index(df) == AsSeq([i \in 1..Len(df) |-> [df[i] EXCEPT !.index = i - 1]])

get_segment(df, index) == SelectSeq(df, LAMBDA r : r.segment = Num(index))

(* ------------------------------ views ---------------------------------- *)
\* the form fields the requests are made with
Usernames == {"ana", "bo", "cy"}
Emails == {"a@x.org"}
Passwords == {"pw1", "pw2"}
AnonymousUser == "AnonymousUser"
\* the password as the account stores it
make_password(password) == <<"hashed", password>>
\* User.objects.create_user: IntegrityError when the username is taken
IntegrityError(store, username) == \E u \in store : u.username = username
create_user(store, username, email, password) ==
    store \cup {[username |-> username, email |-> email,
                 password |-> make_password(password)]}
\* authenticate: the account with these credentials, if there is one
authenticate(store, username, password) ==
    {u \in store : u.username = username /\ u.password = make_password(password)}

\* a registration that does not compare the password with its confirmation
register_unconfirmed(store, user, method, POST) ==
    IF method # "POST"
    THEN [accounts |-> store, session |-> user, message |-> "", to |-> "register.html"]
    ELSE IF IntegrityError(store, POST.username)
    THEN [accounts |-> store, session |-> user, message |-> "Username already taken.",
          to |-> "register.html"]
    ELSE [accounts |-> create_user(store, POST.username, POST.email, POST.password),
          session |-> POST.username, message |-> "", to |-> "index"]
\* register_view: the store, the session's user and the page it answers with
register_view(store, user, method, POST) ==
    IF method # "POST"
    THEN [accounts |-> store, session |-> user, message |-> "", to |-> "register.html"]
    ELSE IF POST.password # POST.confirmation
    THEN [accounts |-> store, session |-> user, message |-> "Passwords must match.",
          to |-> "register.html"]
    ELSE IF IntegrityError(store, POST.username)
    THEN [accounts |-> store, session |-> user, message |-> "Username already taken.",
          to |-> "register.html"]
    ELSE [accounts |-> create_user(store, POST.username, POST.email, POST.password),
          session |-> POST.username, message |-> "", to |-> "index"]

NoResponse == [view |-> "", method |-> "", message |-> "", to |-> ""]

RegisterView ==
    \E method \in {"GET", "POST"}, username \in Usernames, email \in Emails,
       password \in Passwords, confirmation \in Passwords :
        LET POST == [username |-> username, email |-> email, password |-> password,
                     confirmation |-> confirmation]
            done == register_view(accounts, session, method, POST)
        IN  /\ accounts' = done.accounts
            /\ session' = done.session
            /\ response' = [view |-> "register", method |-> method, POST |-> POST,
                            message |-> done.message, to |-> done.to]
            /\ UNCHANGED <<vars, run>>

LoginView ==
    \E username \in Usernames, password \in Passwords :
        /\ session' = IF authenticate(accounts, username, password) # {}
                      THEN username ELSE session
        /\ response' = [view |-> "login", method |-> "POST",
                        message |-> IF authenticate(accounts, username, password) # {}
                                    THEN "" ELSE "Invalid username and/or password.",
                        to |-> IF authenticate(accounts, username, password) # {}
                               THEN "index" ELSE "login.html"]
        /\ UNCHANGED <<accounts, vars, run>>

LogoutView ==
    /\ session' = AnonymousUser
    /\ response' = [view |-> "logout", method |-> "GET", message |-> "", to |-> "index"]
    /\ UNCHANGED <<accounts, vars, run>>

\* avg_speed: a number (in 1/Scale km/h), inf or NaN; time_delta: numbers
\* (in seconds), or all NaN, or inf in it, or all -0.0, or not assigned yet
Avg(kind, value) == [kind |-> kind, value |-> value]
Times(kind, values) == [kind |-> kind, values |-> values]
\* no insert_timestamp call is in its loop
NotLooping ==
    [pc |-> "return", dist_diff |-> <<>>, desired_speed |-> 1, speed_elevation |-> <<>>,
     speeds |-> "finite", avg_speed |-> Avg("nan", 0), time_delta |-> Times("unset", <<>>),
     used_time |-> 0, passes |-> 0]

(* ------------------------------ Init ----------------------------------- *)
\* call is the last call made and its outcome, prev the counters before it;
\* base and splits record the current run of successive divide_segment
\* calls: the table and size before the run, the row indexes it was called with
NoCall == [name |-> "__init__", raised |-> FALSE]
\* one more call is made
Called == /\ ncalls < MaxCalls
          /\ ncalls' = ncalls + 1
          /\ prev' = [size |-> size, last_segment_idx |-> last_segment_idx]
          /\ UNCHANGED <<web, run>>
NoBase == [df_track |-> <<>>, size |-> 0]
NoRun == base' = NoBase /\ splits' = <<>>

Init ==
    /\ df_track = <<>>
    /\ size = 0
    /\ last_segment_idx = Num(0)
    /\ total_distance = 0
    /\ total_uphill = Num(0)
    /\ total_downhill = Num(0)
    /\ extremes = <<Num(0), Num(0), Num(0), Num(0)>>
    /\ call = NoCall
    /\ prev = [size |-> 0, last_segment_idx |-> Num(0)]
    /\ ncalls = 0
    /\ base = NoBase
    /\ splits = <<>>
    /\ dtypes = forced_types
    /\ accounts = {}
    /\ session = AnonymousUser
    /\ response = NoResponse
    /\ loop = NotLooping
    /\ clock = 0

\* the summary scalars after _update_summary on a non-empty table
Summary(df) ==
    /\ total_distance' = df[Len(df)].distance
    /\ total_uphill' = df[Len(df)].ele_pos_cum
    /\ total_downhill' = df[Len(df)].ele_neg_cum
    /\ extremes' = _update_extremes(df)

SummaryUnchanged == UNCHANGED <<total_distance, total_uphill, total_downhill, extremes>>

(* ----------------------------- add_gpx --------------------------------- *)
\* self.last_segment_idx -= 1
previous_segment_idx(last) == Plus(last, -1)
\* self.last_segment_idx += 1
next_segment_idx(last) == Plus(last, 1)

\* df_gpx holds the new id; the new rows have no derived cells before the
\* summary is recomputed
add_gpx(df, df_gpx, segment) ==
    LET rows == AsSeq([i \in 1..Len(df_gpx) |->
                    [index |-> i - 1, lat |-> df_gpx[i].lat, lon |-> df_gpx[i].lon,
                     ele |-> df_gpx[i].ele, segment |-> segment, time |-> df_gpx[i].time,
                     distance |-> 0, ele_pos_cum |-> NaN, ele_neg_cum |-> NaN]])
    IN  _force_columns_type(_update_summary(reset_index(df \o rows)))

\* add_gpx(file).  The cast at the end raises when a row of the table has no
\* segment id; the table, the counters and the summary are set by then
AddFile(file) ==
        /\ Called
        /\ Len(df_track) + Len(file) <= MaxRows
        /\ IF IsNaN(last_segment_idx) THEN TRUE ELSE Val(last_segment_idx) < MaxSegmentId
        /\ size < MaxRows + MaxSizeSlack
        /\ size' = size + 1
        /\ last_segment_idx' = next_segment_idx(last_segment_idx)
        /\ df_track' = add_gpx(df_track, to_pandas(file), last_segment_idx')
        /\ Summary(df_track')
        /\ call' = [name |-> "add_gpx", file |-> file, raised |-> cast_raises(df_track')]
        /\ dtypes' = force_types(dtypes, df_track')
        /\ NoRun

AddGpx == \E file \in GpxFiles : AddFile(file)

(* -------------------------- reverse_segment ---------------------------- *)
\* a pandas Series: its cells in order, each with its index label
Series(df, f) == AsSeq([i \in 1..Len(df) |-> <<df[i].index, df[i][f]>>])
\* frame[col] = series: pandas aligns the series on the frame's index labels,
\* whatever the order of the series' cells
setitem_series(labels, series) ==
    AsSeq([i \in 1..Len(labels) |->
        LET hit == {j \in 1..Len(series) : series[j][1] = labels[i]}
        IN  series[CHOOSE j \in hit : TRUE][2]])

reverse_segment(df, index) ==
    LET segment == get_segment(df, index)
        time    == Series(df, "time")
        n       == Len(segment)
        labels  == Column(segment, "index")
        \* DataFrame(segment.values[::-1], segment.index, segment.columns)
        values  == Reverse(segment)
        newtime == setitem_series(labels, Reverse(time))
        rev_segment == AsSeq([i \in 1..n |->
                          [values[i] EXCEPT !.index = labels[i], !.time = newtime[i]]])
        \* df.loc[df.segment == index] = rev_segment, aligned on the labels
        assigned == AsSeq([i \in 1..Len(df) |->
                       IF df[i].segment = Num(index)
                       THEN rev_segment[CHOOSE j \in 1..n : rev_segment[j].index = df[i].index]
                       ELSE df[i]])
    IN  _force_columns_type(assigned)

\* called with the id of a segment of the table; the cast raises, before
\* the summary is recomputed, when a row of the table has no segment id
ReverseSegment ==
    \E index \in SegmentIds(df_track) :
        LET assigned == reverse_segment(df_track, index) IN
        /\ Called
        /\ IF cast_raises(assigned)
           THEN /\ df_track' = assigned
                /\ SummaryUnchanged
                /\ call' = [name |-> "reverse_segment", index |-> index, raised |-> TRUE]
           ELSE /\ df_track' = _update_summary(assigned)
                /\ Summary(df_track')
                /\ call' = [name |-> "reverse_segment", index |-> index, raised |-> FALSE]
        /\ dtypes' = force_types(dtypes, assigned)
        /\ UNCHANGED <<size, last_segment_idx>>
        /\ NoRun

(* --------------------------- remove_segment ---------------------------- *)
\* a filter that keeps the rows of the segment
only_segment(df, index) == reset_index(SelectSeq(df, LAMBDA r : r.segment = Num(index)))
\* the table after the rows of the segment are dropped and the index is reset
drop_segment(df, index) == reset_index(SelectSeq(df, LAMBDA r : r.segment # Num(index)))

\* called with any id, on any table.  The summary is recomputed on what the
\* drop leaves, a table without rows included (it gets a row of NaN, which
\* makes the segment column float64), and the table is emptied when size
\* reaches 0.  held: a row held the id
RemoveSegment ==
    \E index \in 1..MaxSegmentId :
        LET updated == _update_summary(drop_segment(df_track, index)) IN
        /\ Called
        /\ size > -MaxSizeSlack
        /\ size' = size - 1
        /\ Summary(updated)
        /\ df_track' = IF size' = 0 THEN <<>> ELSE updated
        /\ call' = [name |-> "remove_segment", index |-> index, raised |-> FALSE,
                    ret |-> size', held |-> index \in SegmentIds(df_track)]
        /\ dtypes' = IF drop_segment(df_track, index) = <<>>
                      THEN [dtypes EXCEPT !.segment = "float64"]
                      ELSE dtypes
        /\ UNCHANGED last_segment_idx
        /\ NoRun

(* --------------------------- divide_segment ---------------------------- *)
segment_index_modifier(row, div_index) ==
    IF row.index < div_index THEN row.segment ELSE Plus(row.segment, 1)

divide_segment(df, div_index) ==
    AsSeq([i \in 1..Len(df) |-> [df[i] EXCEPT !.segment = segment_index_modifier(df[i], div_index)]])

\* the row indexes the calls are made with: every row of the table, and the
\* index past the last row
DivIndexes(df) == 0..Len(df)

\* Python's max over the cells of a column: the first cell, replaced by
\* every later cell that compares greater; no cell compares greater than NaN
RECURSIVE max_from(_, _, _)
max_from(cells, i, m) ==
    IF i > Len(cells) THEN m
    ELSE max_from(cells, i + 1, IF CellLt(m, cells[i]) THEN cells[i] ELSE m)
\* max(self.df_track['segment'])
max_segment(df) == max_from(Column(df, "segment"), 2, df[1].segment)

\* the effect of divide_segment(div_index) on a non-empty table
Divide(div_index) ==
    /\ df_track # <<>>
    /\ size < MaxRows + MaxSizeSlack
    /\ df_track' = divide_segment(df_track, div_index)
    /\ size' = size + 1
    /\ last_segment_idx' = max_segment(df_track')
    /\ SummaryUnchanged
    /\ dtypes' = [dtypes EXCEPT !.segment = applied_type(df_track')]
    /\ call' = [name |-> "divide_segment", div_index |-> div_index, raised |-> FALSE,
                ret |-> TRUE]

DivideSegment ==
    \E div_index \in DivIndexes(df_track) :
        /\ Called
        /\ Divide(div_index)
        /\ \A s \in SegmentIds(df_track') : s <= MaxSegmentId
        /\ base' = IF splits = <<>> THEN [df_track |-> df_track, size |-> size] ELSE base
        /\ splits' = Append(splits, div_index)

(* ---------------------------- change_order ----------------------------- *)
\* DataFrame.sort_values(by=['segment', 'index1']); index1 is the old label
RowBefore(a, b) == \/ CellLt(a.segment, b.segment)
                   \/ a.segment = b.segment /\ a.index < b.index
\* a table left in the order it had
unsorted_values(df) == df
sort_values(df) ==
    LET rank(i) == 1 + Cardinality({j \in 1..Len(df) : RowBefore(df[j], df[i])})
    IN  AsSeq([r \in 1..Len(df) |-> df[CHOOSE i \in 1..Len(df) : rank(i) = r]])

change_order(df, new_order) ==
    LET relabelled == AsSeq([i \in 1..Len(df) |->
                          [df[i] EXCEPT !.segment = Num(new_order[Val(df[i].segment)])]])
    IN  _update_summary(reset_index(sort_values(relabelled)))

\* the mappings the calls are made with: injective, defined on every id of
\* the table.  On a table with a row without id the lookup new_order[NaN]
\* raises KeyError before anything is assigned: no step
Orders(df) == {m \in [SegmentIds(df) -> 1..MaxSegmentId] :
                  \A a, b \in SegmentIds(df) : m[a] = m[b] => a = b}

\* the mappings among them that permute the ids of the table
PermutationOrders(df) == {m \in Orders(df) : {m[a] : a \in DOMAIN m} = DOMAIN m}

\* change_order(new_order) with a mapping of the set orders
ChangeOrderWith(orders) ==
    /\ Called
    /\ df_track # <<>>
    /\ \A i \in 1..Len(df_track) : ~IsNaN(df_track[i].segment)
    /\ \E new_order \in orders :
        /\ df_track' = change_order(df_track, new_order)
        /\ Summary(df_track')
        /\ call' = [name |-> "change_order", new_order |-> new_order, raised |-> FALSE]
    /\ dtypes' = [dtypes EXCEPT !.segment = applied_type(df_track')]
    /\ UNCHANGED <<size, last_segment_idx>>
    /\ NoRun

ChangeOrder == ChangeOrderWith(Orders(df_track))
PermuteOrder == ChangeOrderWith(PermutationOrders(df_track))

(* --------------------------- insert_timestamp -------------------------- *)
\* the model keeps timestamps in seconds and speeds in 1/Scale km/h; a float
\* result is rounded to that grid, half to even
TicksPerHour == 3600
Scale == 1000
Round(n, d) ==
    LET m == IF d < 0 THEN -n ELSE n
        e == Abs(d)
        q == m \div e
        r == m - q * e
    IN  IF 2 * r < e THEN q
        ELSE IF 2 * r > e THEN q + 1
        ELSE IF q % 2 = 0 THEN q ELSE q + 1
RECURSIVE Sum(_, _)
Sum(s, i) == IF i = 0 THEN 0 ELSE Sum(s, i - 1) + s[i]

\* the values _get_speed_factor_to_slope takes where the climb saturates
\* (slope > 17.8), on level ground (a + c at slope 0) and where the descent
\* saturates (slope < -15.9), as fractions; the slope of a step decides which
Climb == <<1, 3>>
Level == <<201, 200>>
Descent == <<3, 1>>
SpeedFactors == {Climb, Level, Descent}
\* the factors of n moving steps: slope -= np.mean(slope) centres the slopes,
\* so a single step is level, and several steps neither all climb nor all
\* descend
speed_factors(n) ==
    {f \in [1..n -> SpeedFactors] :
        IF n = 1 THEN f[1] = Level
        ELSE (\E i \in 1..n : f[i] # Climb) /\ (\E i \in 1..n : f[i] # Descent)}
\* the arguments the calls are made with
InitialTimes == {100}
DesiredSpeeds == {1, 3}

\* flat mode: initial_time + timedelta(hours = distance / desired_speed)
flat_times(df, initial_time, desired_speed) ==
    AsSeq([i \in 1..Len(df) |->
        [df[i] EXCEPT !.time = Num(initial_time + Round(df[i].distance * TicksPerHour, desired_speed))]])

\* np.diff of a column
np_diff(col) == AsSeq([i \in 1..(Len(col) - 1) |-> col[i + 1] - col[i]])
\* a filter that drops no row
every_row(df) == df
\* df[np.append(dist_diff != 0, True)]: a row stays when the step to the next
\* row has a distance, and the last row stays; the labels are kept
moving_rows(df) ==
    LET dist_diff == np_diff(Column(df, "distance"))
        keep == {i \in 1..Len(df) : i = Len(df) \/ dist_diff[i] # 0}
        rank(i) == Cardinality({j \in keep : j <= i})
    IN  AsSeq([r \in 1..Cardinality(keep) |-> df[CHOOSE i \in keep : rank(i) = r]])
\* dist_diff[dist_diff != 0]
moving_steps(df) ==
    SelectSeq(np_diff(Column(df, "distance")), LAMBDA d : d # 0)

\* a moving step from or to a row without elevation: its slope is NaN, and
\* slope -= np.mean(slope) makes every slope NaN
nan_slope(df) ==
    \E i \in 1..(Len(df) - 1) :
        /\ df[i + 1].distance # df[i].distance
        /\ IsNaN(df[i].ele) \/ IsNaN(df[i + 1].ele)

\* speed_elevation = desired_speed * speed_factor
initial_speeds(desired_speed, speed_factor) ==
    AsSeq([i \in 1..Len(speed_factor) |->
        Round(desired_speed * Scale * speed_factor[i][1], speed_factor[i][2])])

\* one pass of the correction loop from the speeds speed_elevation; finite
\* is false when the pass divides by zero (numpy: inf, nan)
loop_body(dist_diff, speed_elevation, desired_speed) ==
    LET n == Len(dist_diff)
        finite1 == \A i \in 1..n : speed_elevation[i] # 0
        time_delta == AsSeq([i \in 1..n |->
                         IF speed_elevation[i] = 0 THEN 0
                         ELSE Round(dist_diff[i] * TicksPerHour * Scale, speed_elevation[i])])
        total == Sum(time_delta, n)
        avg_speed == IF total = 0 THEN 0
                     ELSE Round(Sum(dist_diff, n) * TicksPerHour * Scale, total)
        corrected == AsSeq([i \in 1..n |->
                         speed_elevation[i] - (avg_speed - desired_speed * Scale)])
    IN  [time_delta |-> time_delta, avg_speed |-> avg_speed,
         speed_elevation |-> corrected, finite |-> finite1 /\ total # 0]

\* abs(avg_speed - desired_speed) > 0.05 * desired_speed
off_target(avg_speed, desired_speed) ==
    20 * Abs(avg_speed - desired_speed * Scale) > desired_speed * Scale

\* most passes of the loop the model follows before the 0.5 s are over
MaxPasses == 3

\* the passes the loop can end after: it is entered with avg_speed =
\* 10 * desired_speed and used_time = 0, so its body runs once; after a pass
\* it ends when the average is on target or the wall clock says so, and the
\* clock can say so after any pass
RECURSIVE loop_results(_, _, _, _)
loop_results(dist_diff, speed_elevation, desired_speed, passes) ==
    LET pass == loop_body(dist_diff, speed_elevation, desired_speed)
    IN  {pass} \cup
        (IF pass.finite /\ off_target(pass.avg_speed, desired_speed) /\ passes > 1
         THEN loop_results(dist_diff, pass.speed_elevation, desired_speed, passes - 1)
         ELSE {})

\* relative_time = np.append(0, np.cumsum(time_delta)) and the time column
elevation_times(df, initial_time, time_delta) ==
    AsSeq([i \in 1..Len(df) |->
        [df[i] EXCEPT !.time = Num(initial_time + Sum(time_delta, i - 1))]])

\* called on a non-empty table with a positive speed.  In elevation mode a
\* table without a moving step raises ZeroDivisionError in the loop (0 / 0),
\* and a time_delta that is not finite (a pass that divides by zero, a NaN
\* elevation, which makes every slope NaN) raises in timedelta; both after
\* the rows were dropped
InsertTimestamp ==
    \E initial_time \in InitialTimes, desired_speed \in DesiredSpeeds,
       consider_elevation \in BOOLEAN :
        LET done(raised) == [name |-> "insert_timestamp", initial_time |-> initial_time,
                             desired_speed |-> desired_speed,
                             consider_elevation |-> consider_elevation, raised |-> raised]
            rows == moving_rows(df_track)
            dist_diff == moving_steps(df_track)
        IN
        /\ Called
        /\ df_track # <<>>
        /\ IF ~consider_elevation
           THEN /\ df_track' = flat_times(df_track, initial_time, desired_speed)
                /\ call' = done(FALSE)
           ELSE IF dist_diff = <<>> \/ nan_slope(df_track)
           THEN /\ df_track' = rows
                /\ call' = done(TRUE)
           ELSE \E speed_factor \in speed_factors(Len(dist_diff)) :
                \E pass \in loop_results(dist_diff, initial_speeds(desired_speed, speed_factor),
                                         desired_speed, MaxPasses) :
                    IF pass.finite
                    THEN /\ df_track' = elevation_times(rows, initial_time, pass.time_delta)
                         /\ call' = done(FALSE)
                    ELSE /\ df_track' = rows
                         /\ call' = done(TRUE)
        /\ dtypes' = [dtypes EXCEPT !.time = "datetime64[ns]"]
        /\ UNCHANGED <<size, last_segment_idx>>
        /\ SummaryUnchanged
        /\ NoRun

(* ------------------------------ save_gpx ------------------------------- *)
\* Series.unique(): the values of a column in the order they first appear
unique(col) ==
    LET first == SelectSeq(AsSeq([i \in 1..Len(col) |-> i]),
                           LAMBDA i : \A j \in 1..(i - 1) : col[j] # col[i])
    IN  AsSeq([k \in 1..Len(first) |-> col[first[k]]])
\* the GPXTrackPoint written for a row
gpx_point(row) == Pt(Val(row.lat), Val(row.lon), Val(row.ele), Val(row.time))
\* the segments save_gpx writes: one for every value of the segment column,
\* holding the rows get_segment returns for it (none for NaN, which equals
\* no cell)
save_gpx(df) ==
    LET ids == unique(Column(df, "segment"))
        df_segment(seg_id) == IF IsNaN(seg_id) THEN <<>> ELSE get_segment(df, Val(seg_id))
    IN  AsSeq([k \in 1..Len(ids) |->
            AsSeq([i \in 1..Len(df_segment(ids[k])) |-> gpx_point(df_segment(ids[k])[i])])])
\* gpx.Gpx(file): the points of every segment of the file, in file order
RECURSIVE flatten(_)
flatten(segments) ==
    IF segments = <<>> THEN <<>> ELSE Head(segments) \o flatten(Tail(segments))

(* ------------------- the correction loop, pass by pass ------------------ *)
\* clock ticks in the 0.5 s the loop may use
Budget == 2
\* abs(avg_speed - desired_speed) > 0.05 * desired_speed: false for NaN
loop_off_target(avg_speed, desired_speed) ==
    \/ avg_speed.kind = "inf"
    \/ avg_speed.kind = "num" /\ off_target(avg_speed.value, desired_speed)

\* lines 126-144: the steps that move, their speeds (NaN when a slope is NaN),
\* used_time = 0, start = time.time(), avg_speed = desired_speed * 10
EnterLoop ==
    /\ loop.pc = "return"
    /\ df_track # <<>>
    /\ \E desired_speed \in DesiredSpeeds :
       \E speed_factor \in speed_factors(Len(moving_steps(df_track))) :
           loop' = [pc |-> "while", dist_diff |-> moving_steps(df_track),
                    desired_speed |-> desired_speed,
                    speed_elevation |-> initial_speeds(desired_speed, speed_factor),
                    speeds |-> IF nan_slope(df_track) THEN "nan" ELSE "finite",
                    avg_speed |-> Avg("num", 10 * desired_speed * Scale),
                    time_delta |-> Times("unset", <<>>), used_time |-> 0, passes |-> 0]
    /\ clock' = 0
    /\ UNCHANGED <<vars, web>>

\* line 146: the loop condition
While ==
    /\ loop.pc = "while"
    /\ loop' = [loop EXCEPT !.pc =
                    IF /\ loop_off_target(loop.avg_speed, loop.desired_speed)
                       /\ loop.used_time < Budget
                    THEN "body" ELSE "leave"]
    /\ UNCHANGED <<vars, web, clock>>

\* lines 148-151, one pass.  Without a moving step sum(dist_diff) and
\* sum(time_delta) are the int 0 and the division raises.  numpy carries on
\* with what is not finite: NaN speeds give NaN; a speed of 0 gives an
\* infinite step time and the average 0; step times that cancel give the
\* average inf, and the speeds are -inf from then on.  At most MaxPasses
\* passes fit before the clock has reached the budget
Body ==
    /\ loop.pc = "body"
    /\ loop.passes < MaxPasses \/ clock >= Budget
    /\ LET pass == loop_body(loop.dist_diff, loop.speed_elevation, loop.desired_speed)
           n == Len(loop.dist_diff)
           stalled == \E i \in 1..n : loop.speed_elevation[i] = 0
           again == [loop EXCEPT !.pc = "while", !.used_time = clock,
                                 !.passes = loop.passes + 1]
       IN  loop' =
             IF n = 0 THEN [loop EXCEPT !.pc = "raise"]
             ELSE IF loop.speeds = "nan"
             THEN [again EXCEPT !.avg_speed = Avg("nan", 0), !.time_delta = Times("nan", <<>>)]
             ELSE IF loop.speeds = "-inf"
             THEN [again EXCEPT !.avg_speed = Avg("inf", 0), !.time_delta = Times("-0", <<>>)]
             ELSE IF stalled
             THEN [again EXCEPT !.avg_speed = Avg("num", 0),
                                !.time_delta = Times("inf", pass.time_delta),
                                !.speed_elevation =
                                    AsSeq([i \in 1..n |-> loop.speed_elevation[i]
                                                          + loop.desired_speed * Scale])]
             ELSE IF ~pass.finite
             THEN [again EXCEPT !.avg_speed = Avg("inf", 0), !.speeds = "-inf",
                                !.time_delta = Times("num", pass.time_delta)]
             ELSE [again EXCEPT !.avg_speed = Avg("num", pass.avg_speed),
                                !.time_delta = Times("num", pass.time_delta),
                                !.speed_elevation = pass.speed_elevation]
    /\ UNCHANGED <<vars, web, clock>>

\* the wall clock advances while the loop runs
Tick ==
    /\ loop.pc \in {"while", "body"}
    /\ clock < Budget
    /\ clock' = clock + 1
    /\ UNCHANGED <<vars, web, loop>>

\* the tracks the loop runs on are loaded first
LoadGpx == loop.pc = "return" /\ AddGpx
LoadBareGpx == loop.pc = "return" /\ \E file \in BareFiles : AddFile(file)

NextLoop == LoadGpx \/ LoadBareGpx \/ EnterLoop \/ While \/ Body \/ Tick
SpecLoop == Init /\ [][NextLoop]_<<vars, run>>
\* the interpreter runs the loop on, and the wall clock advances
SpecLoopFair == SpecLoop /\ WF_<<vars, run>>(While) /\ WF_<<vars, run>>(Body)
                         /\ WF_<<vars, run>>(Tick)

Next == AddGpx \/ ReverseSegment \/ RemoveSegment \/ DivideSegment \/ ChangeOrder

Spec == Init /\ [][Next]_vars

\* the operations that build and split a track, and insert_timestamp
NextTime == AddGpx \/ DivideSegment \/ InsertTimestamp
SpecTime == Init /\ [][NextTime]_vars

\* a recording that starts with three fixes of one place
StationaryFiles == { << Pt(0, 0, 0, 1), Pt(0, 0, 0, 2), Pt(0, 0, 0, 3),
                        Pt(1, 0, 2, 4), Pt(2, 0, 1, 5) >> }
AddStationaryGpx == \E file \in StationaryFiles : AddFile(file)
\* timestamps inserted into tracks that are loaded and reversed
NextRetime == AddGpx \/ AddStationaryGpx \/ ReverseSegment \/ InsertTimestamp
SpecRetime == Init /\ [][NextRetime]_vars

\* insert_timestamp as one of the first MaxStampCalls calls made on a Track
MaxStampCalls == 3
Stamp == ncalls < MaxStampCalls /\ InsertTimestamp
NextStamp == AddGpx \/ AddStationaryGpx \/ Stamp
SpecStamp == Init /\ [][NextStamp]_vars


\* the editing operations, change_order called with permutations only
NextPermute == AddGpx \/ ReverseSegment \/ RemoveSegment \/ DivideSegment \/ PermuteOrder
SpecPermute == Init /\ [][NextPermute]_vars

\* the operations that change the number of segments
NextSize == AddGpx \/ DivideSegment \/ RemoveSegment
SpecSize == Init /\ [][NextSize]_vars

\* the requests of one client to the account views
NextWeb == RegisterView \/ LoginView \/ LogoutView
SpecWeb == Init /\ [][NextWeb]_<<vars, web, run>>

(* ===================== properties of the operations ==================== *)
\* the GPX columns of a row, and of every row of a table in row order
Geo(r) == <<r.lat, r.lon, r.ele>>
Point(r) == <<r.lat, r.lon, r.ele, r.time>>
Points(df) == AsSeq([i \in 1..Len(df) |-> Point(df[i])])
Rows(df) == AsSeq([i \in 1..Len(df) |-> <<Point(df[i]), df[i].segment>>])
IsPermutation(m) == {m[a] : a \in DOMAIN m} = DOMAIN m

\* C1: add_gpx gives every row of the new file the id last_segment_idx + 1,
\* appends the rows after the rows of the table, increments size and
\* last_segment_idx by one, and no row of the table held that id before
C1_AddGpxFreshId ==
    [][call'.name = "add_gpx" =>
        LET n == Len(df_track)
            file == call'.file
        IN  /\ Len(df_track') = n + Len(file)
            /\ \A i \in 1..n : Rows(df_track')[i] = Rows(df_track)[i]
            /\ \A j \in 1..Len(file) :
                  /\ CellEq(df_track'[n + j].segment, Plus(last_segment_idx, 1))
                  /\ Point(df_track'[n + j]) = Point(to_pandas(file)[j])
            /\ size' = size + 1
            /\ CellEq(last_segment_idx', Plus(last_segment_idx, 1))
            /\ \A s \in SegmentIds(df_track) : Num(s) # Plus(last_segment_idx, 1)]_vars

\* C2: divide_segment(k) adds one to the segment id of the rows at position
\* >= k and keeps the id of the rows before, increments size, sets
\* last_segment_idx to the largest id of the table and keeps the rows, their
\* order and the distance column
C2_DivideByPosition ==
    [][call'.name = "divide_segment" =>
        LET k == call'.div_index
        IN  /\ Len(df_track') = Len(df_track)
            /\ \A i \in 1..Len(df_track) :
                  /\ df_track'[i].segment =
                        Plus(df_track[i].segment, IF i - 1 >= k THEN 1 ELSE 0)
                  /\ Point(df_track'[i]) = Point(df_track[i])
                  /\ df_track'[i].distance = df_track[i].distance
            /\ size' = size + 1
            /\ \E s \in SegmentIds(df_track') : last_segment_idx' = Num(s)
            /\ \A s \in SegmentIds(df_track') : CellLe(Num(s), last_segment_idx')]_vars

\* C3: after successive divide_segment calls at distinct positions, in any
\* order, the id of a row is its id before the calls plus the number of
\* split positions <= its row position; three splits of a track of one
\* segment at interior positions give four segments and size 4
DistinctSplits == \A i, j \in 1..Len(splits) : splits[i] = splits[j] => i = j
C3_SplitsCompose ==
    (splits # <<>> /\ DistinctSplits) =>
        /\ Len(df_track) = Len(base.df_track)
        /\ \A i \in 1..Len(df_track) :
              df_track[i].segment =
                  Plus(base.df_track[i].segment,
                       Cardinality({j \in 1..Len(splits) : splits[j] <= i - 1}))
        /\ ( /\ Cardinality(SegmentIds(base.df_track)) = 1
             /\ base.size = 1
             /\ Len(splits) = 3
             /\ \A j \in 1..3 : 0 < splits[j] /\ splits[j] < Len(df_track) )
           => (Cardinality(SegmentIds(df_track)) = 4 /\ size = 4)

\* C4: change_order with a bijection on the ids of the table relabels every
\* row, keeps the number of rows and the order of the rows of each old
\* segment, and leaves the table sorted by the new id
C4_ChangeOrder ==
    [][(call'.name = "change_order" /\ IsPermutation(call'.new_order)) =>
        LET m == call'.new_order
        IN  /\ Len(df_track') = Len(df_track)
            /\ SegmentIds(df_track') = {m[s] : s \in SegmentIds(df_track)}
            /\ \A s \in SegmentIds(df_track) :
                  Points(get_segment(df_track', m[s])) = Points(get_segment(df_track, s))
            /\ \A i \in 1..(Len(df_track') - 1) :
                  CellLe(df_track'[i].segment, df_track'[i + 1].segment)]_vars

\* a change_order that moved a segment of several rows behind another one
C4_Witness ==
    /\ call.name = "change_order"
    /\ IsPermutation(call.new_order)
    /\ \E s \in DOMAIN call.new_order :
          /\ call.new_order[s] > s
          /\ Len(get_segment(df_track, call.new_order[s])) >= 2
          /\ \E t \in DOMAIN call.new_order : t > s /\ call.new_order[t] < call.new_order[s]

\* C5: remove_segment of an id some row holds leaves no row with the id,
\* decrements size by one and returns the new size
C5_RemoveReturnsSize ==
    [][(call'.name = "remove_segment" /\ call'.index \in SegmentIds(df_track)) =>
        /\ call'.index \notin SegmentIds(df_track')
        /\ size' = size - 1
        /\ ~call'.raised
        /\ call'.ret = size']_vars

\* a remove_segment of the only segment of the table: no row is left, and
\* the new size, 0, is returned
C5_Witness ==
    /\ call.name = "remove_segment"
    /\ call.held
    /\ ~call.raised
    /\ call.ret = 0
    /\ size = 0
    /\ df_track = <<>>

\* C6: remove_segment of an id no row holds keeps every row of the table, in
\* the same order, and changes size only
C6_RemoveAbsentKeepsRows ==
    [][(call'.name = "remove_segment" /\ call'.index \notin SegmentIds(df_track)) =>
        /\ Rows(df_track') = Rows(df_track)
        /\ size' = size - 1
        /\ last_segment_idx' = last_segment_idx]_vars

\* C7: reverse_segment mirrors latitude, longitude and elevation inside the
\* segment and keeps the row count, every segment id and the latitude,
\* longitude and elevation of the rows of the other segments
C7_ReverseGeometry ==
    [][call'.name = "reverse_segment" =>
        LET old == get_segment(df_track, call'.index)
            new == get_segment(df_track', call'.index)
            n   == Len(old)
        IN  /\ Len(new) = n
            /\ \A i \in 1..n : Geo(new[i]) = Geo(old[n + 1 - i])
            /\ Len(df_track') = Len(df_track)
            /\ \A i \in 1..Len(df_track) :
                  /\ df_track'[i].segment = df_track[i].segment
                  /\ df_track[i].segment # Num(call'.index)
                        => Geo(df_track'[i]) = Geo(df_track[i])]_vars

\* a reversed segment of several distinct points, next to another segment
C7_Witness ==
    /\ call.name = "reverse_segment"
    /\ LET seg == get_segment(df_track, call.index)
       IN  Len(seg) >= 2 /\ Geo(seg[1]) # Geo(seg[Len(seg)])
    /\ \E i \in 1..Len(df_track) : df_track[i].segment # Num(call.index)

\* C8: reverse_segment moves the timestamp of the segment's (n-1-i)-th row to
\* its i-th row
C8_ReverseTime ==
    [][call'.name = "reverse_segment" =>
        LET old == get_segment(df_track, call'.index)
            new == get_segment(df_track', call'.index)
            n   == Len(old)
        IN  /\ Len(new) = n
            /\ \A i \in 1..n : new[i].time = old[n + 1 - i].time]_vars

\* C9: no call leaves last_segment_idx smaller than it was
C9_NeverDecreases == [][~CellLt(last_segment_idx', last_segment_idx)]_vars

\* C9 as amended: no add_gpx, remove_segment, reverse_segment or
\* change_order call leaves last_segment_idx smaller than it was
C9_OnlyDivideLowers ==
    [][call'.name # "divide_segment" => ~CellLt(last_segment_idx', last_segment_idx)]_vars

\* a remove_segment that removed the segment with the largest id: the counter
\* stays, above every id of the table
C9_Witness ==
    /\ call.name = "remove_segment"
    /\ call.held
    /\ df_track # <<>>
    /\ last_segment_idx = prev.last_segment_idx
    /\ \A s \in SegmentIds(df_track) : CellLt(Num(s), last_segment_idx)

\* the calls that end with the summary recomputed: add_gpx, reverse_segment,
\* change_order, and a remove_segment that left rows in the table
SummaryJustUpdated ==
    /\ df_track # <<>>
    /\ call.name \in {"add_gpx", "remove_segment", "reverse_segment", "change_order"}
    /\ call.name = "reverse_segment" => ~call.raised

\* C10: after the summary is recomputed on a non-empty table ele_pos_cum is
\* non-decreasing and ele_neg_cum non-increasing in row order, and both are
\* zero at the first row
C10_CumulativeElevation ==
    SummaryJustUpdated =>
        /\ CellEq(df_track[1].ele_pos_cum, Num(0))
        /\ CellEq(df_track[1].ele_neg_cum, Num(0))
        /\ \A i \in 1..(Len(df_track) - 1) :
              /\ CellLe(df_track[i].ele_pos_cum, df_track[i + 1].ele_pos_cum)
              /\ CellLe(df_track[i + 1].ele_neg_cum, df_track[i].ele_neg_cum)
\* C11: insert_timestamp in flat mode with a positive speed, called in any
\* reachable non-empty state, sets every row's timestamp to start_time plus
\* the row's cumulative distance over the speed; the first row's timestamp is
\* start_time, the timestamps do not decrease in row order, and two
\* consecutive rows are tied only when their cumulative distances are equal
FlatCall == IF call'.name = "insert_timestamp" THEN ~call'.consider_elevation ELSE FALSE
C11_FlatTimestamps ==
    [][FlatCall =>
        /\ Len(df_track') = Len(df_track)
        /\ \A i \in 1..Len(df_track) :
               df_track'[i].time =
                   Num(call'.initial_time
                       + Round(df_track[i].distance * TicksPerHour, call'.desired_speed))
        /\ df_track'[1].time = Num(call'.initial_time)
        /\ \A i \in 1..(Len(df_track) - 1) :
               /\ CellLe(df_track'[i].time, df_track'[i + 1].time)
               /\ df_track'[i].time = df_track'[i + 1].time
                      => df_track[i].distance = df_track[i + 1].distance]_vars

\* the labels of the rows of a table at the positions S, in row order
LabelsAt(df, S) ==
    LET at == SelectSeq(AsSeq([i \in 1..Len(df) |-> <<i, df[i].index>>]),
                        LAMBDA c : c[1] \in S)
    IN  AsSeq([k \in 1..Len(at) |-> at[k][2]])
ElevationCall == IF call'.name = "insert_timestamp" THEN call'.consider_elevation ELSE FALSE

\* C12 as stated: insert_timestamp in elevation mode drops the rows whose
\* distance delta to their predecessor is zero and keeps the first row, so the
\* rows left are the first row and every row that moved from its predecessor
C12_DropsAfterPredecessor ==
    [][ElevationCall =>
        Column(df_track', "index") =
            LabelsAt(df_track, {i \in 1..Len(df_track) :
                IF i = 1 THEN TRUE
                ELSE df_track[i].distance # df_track[i - 1].distance})]_vars

\* C12 amended: insert_timestamp in elevation mode drops the rows whose
\* distance delta to their successor is zero and keeps the last row; the rows
\* left keep their order, labels, coordinates, elevation and segment id
C12_DropsBeforeSuccessor ==
    [][ElevationCall =>
        LET left == {i \in 1..Len(df_track) :
                        IF i = Len(df_track) THEN TRUE
                        ELSE df_track[i + 1].distance # df_track[i].distance}
        IN  /\ Column(df_track', "index") = LabelsAt(df_track, left)
            /\ \A k \in 1..Len(df_track') : \E i \in left :
                   /\ df_track[i].index = df_track'[k].index
                   /\ Geo(df_track[i]) = Geo(df_track'[k])
                   /\ df_track[i].segment = df_track'[k].segment
                   /\ df_track[i].distance = df_track'[k].distance]_vars
\* an elevation-mode call has dropped the first row of the table and stamped
\* the rows it left
C12_Witness ==
    /\ call.name = "insert_timestamp"
    /\ call.consider_elevation
    /\ ~call.raised
    /\ Len(df_track) >= 2
    /\ df_track[1].index > 0

\* C13: insert_timestamp in elevation mode with a positive speed returns and
\* leaves timestamps that do not decrease in row order, the first row's equal
\* to start_time and no row without a timestamp, whatever the track and the
\* speed factors of its steps
C13_ElevationTimestamps ==
    [][ElevationCall =>
        /\ ~call'.raised
        /\ df_track'[1].time = Num(call'.initial_time)
        /\ \A i \in 1..Len(df_track') : ~IsNaN(df_track'[i].time)
        /\ \A i \in 1..(Len(df_track') - 1) :
               CellLe(df_track'[i].time, df_track'[i + 1].time)]_vars

\* the table of a fresh Track after add_gpx of the file save_gpx writes
Reloaded(df) == add_gpx(<<>>, to_pandas(flatten(save_gpx(df))), next_segment_idx(Num(0)))
TimestampsSet(df) == df # <<>> /\ \A i \in 1..Len(df) : ~IsNaN(df[i].time)
\* C14: in every reachable state with timestamps set, save_gpx followed by
\* add_gpx of the written file into a fresh Track gives a table with the same
\* latitude, longitude, elevation and timestamp in every row, in row order
C14_RoundTrip ==
    TimestampsSet(df_track) => Points(Reloaded(df_track)) = Points(df_track)

\* C15: after every mutating operation the type coercion has been applied:
\* latitude, longitude and elevation are float32, the segment id is int32 and
\* time is a nanosecond timestamp
C15_ColumnTypes == dtypes = forced_types

\* C16: a registration POST whose password differs from its confirmation, or
\* whose username is taken, leaves the account store and the session as they
\* were; any other registration POST adds exactly one account, the one of the
\* posted username, and logs that account in
RegistrationPost ==
    /\ response'.view = "register"
    /\ response'.method = "POST"
C16_Registration ==
    [][RegistrationPost =>
        LET POST == response'.POST
            taken == \E u \in accounts : u.username = POST.username
        IN  IF POST.password # POST.confirmation \/ taken
            THEN accounts' = accounts /\ session' = session
            ELSE /\ Cardinality(accounts') = Cardinality(accounts) + 1
                 /\ \E u \in accounts' \ accounts :
                        /\ u.username = POST.username
                        /\ accounts' = accounts \cup {u}
                 /\ session' = POST.username]_<<vars, web>>
\* registrations were rejected for a taken username while another user was
\* logged in, and the store holds one account per registered username
C16_Witness ==
    /\ response.view = "register"
    /\ response.message = "Username already taken."
    /\ Cardinality(accounts) = 2
    /\ session # AnonymousUser
    /\ session # response.POST.username

\* the ids of a table in ascending order
RECURSIVE Ascending(_)
Ascending(S) == IF S = {} THEN <<>> ELSE <<SetMin(S)>> \o Ascending(S \ {SetMin(S)})
\* C17: in every state reached by add_gpx, divide_segment, remove_segment,
\* reverse_segment and change_order with permutations, the segment ids do not
\* decrease in row order, and save_gpx writes exactly one segment for every
\* id of the table, in ascending order of the ids, holding the rows of the id
C17_ContiguousAscending ==
    /\ \A i \in 1..(Len(df_track) - 1) :
           CellLe(df_track[i].segment, df_track[i + 1].segment)
    /\ LET ids == Ascending(SegmentIds(df_track))
       IN  save_gpx(df_track) =
               AsSeq([k \in 1..Len(ids) |->
                   AsSeq([i \in 1..Len(get_segment(df_track, ids[k])) |->
                       gpx_point(get_segment(df_track, ids[k])[i])])])

\* C18: in every state reached by add_gpx, divide_segment with any row index
\* and remove_segment with any id, size is the number of distinct segment ids
\* in the table, and it is never negative
C18_SizeCountsSegments ==
    /\ size = Cardinality(SegmentIds(df_track))
    /\ size >= 0

\* the achieved average speed is within 5% of the target
OnTarget(avg_speed, desired_speed) ==
    /\ avg_speed.kind = "num"
    /\ 20 * Abs(avg_speed.value - desired_speed * Scale) <= desired_speed * Scale
\* C19: the correction loop is left only after its body has run, and only
\* when the average speed is within 5% of the target or the 0.5 s budget has
\* elapsed
C19_LoopExit ==
    [][(loop.pc \in {"while", "body"} /\ loop'.pc \in {"leave", "raise"}) =>
        /\ loop'.passes >= 1
        /\ \/ OnTarget(loop'.avg_speed, loop'.desired_speed)
           \/ loop'.used_time >= Budget]_<<vars, run>>
\* the loop, once entered, is left when the wall clock advances
LoopTerminates == (loop.pc = "while") ~> (loop.pc \in {"leave", "raise"})

====
